---- MODULE Spec2Model ----
(***************************************************************************)
(* Model of the quick-battle session engine of src/modules/BattleHandler.py *)
(* (QuickBattleRequest, the three Creator classes with their modals and     *)
(* the buttons).                                                            *)
(*                                                                          *)
(* Two execution contexts are modelled:                                     *)
(*   - the threading.Timer thread that runs __tick__ (one attribute read   *)
(*     or write of the shared session fields per step), and                 *)
(*   - the asyncio event loop: every coroutine is a task that runs from     *)
(*     one await to the next in one step (the loop is cooperative).  The   *)
(*     only event-loop code split further is the timer stop sequence of    *)
(*     _start_battle and _abort_battle, whose reads and writes of           *)
(*     _timer_running and timer interleave with the timer thread.           *)
(*                                                                          *)
(* A request sent to Discord (message edit, message send, modal) takes     *)
(* effect on what the users see at the call; the calling task then stays   *)
(* suspended at that await until a later step resumes it; a coroutine      *)
(* whose last statement is such an await has nothing left to do and ends   *)
(* at the call.  In Spec every transport call succeeds.                    *)
(***************************************************************************)
EXTENDS Integers, Sequences, FiniteSets, Bags, TLC

\* ---------------------------------------------------------------- bounds
NUsers == 3          \* users 1..NUsers; user 1 is the owner
MaxTimeout == 2      \* the timeout argument (30..600 in the command), in ticks
MaxRuns == 2         \* runs of _async_timeout explored per session
MaxInflight == 1     \* button clicks issued whose callback has not begun yet
MaxTasks == 3        \* event-loop tasks alive at once
MaxClicks == 3       \* button clicks per behaviour
NWorkers == 2        \* executor threads running _generate_response_sync
MaxLocks == 3        \* threading.Lock objects created by the registry
MaxDicts == 2        \* ledgers created by the sessions of the two-session model
MaxRows == 2         \* metrics rows stored by the collector
MaxNow == 12         \* the clock of the metrics collector, in seconds
FlushInterval == 10  \* MetricsCollector._flush_interval, in seconds

Users == 1..NUsers
Owner == 1
Runs == 1..MaxRuns
Stages == {"env", "fig", "str"}

\* what a user types into a field of a modal: nothing, a blank, or a
\* letter between blanks
Texts == {<<>>, <<" ">>, <<" ", "x", " ">>}

VARIABLES
    timeout,             \* QuickBattleRequest.timeout
    custom_environment,  \* QuickBattleRequest.custom_environment
    timeelapsed,         \* QuickBattleRequest.timeelapsed
    timer_running,       \* QuickBattleRequest._timer_running
    timer,               \* QuickBattleRequest.timer: "none", "pending" (the
                         \* Timer waiting to fire) or "stale" (a Timer that
                         \* fired or was cancelled)
    timer_alive,         \* a started Timer has neither fired nor been cancelled
    tick_pc,             \* position of the timer thread inside __tick__
    participants,        \* QuickBattleRequest.participants (a list)
    embed,               \* QuickBattleRequest.embed: "none", "roster", "aborted"
    ui,                  \* QuickBattleRequest.ui: "none", "full", "empty"
    shown,               \* what the roster message displays: [embed, view]
    tasks,               \* bag of suspended (or queued) event-loop tasks
    cur,                 \* the task running the timer stop sequence, or NoTask
    inflight,            \* clicks issued by users, callback not begun yet
    modals,              \* modals on users' screens: [u, r, s]
    phase,               \* phase[r][s]: the Creator object of run r, stage s
    nruns,               \* number of _async_timeout invocations so far
    seqlog,              \* seqlog[r]: origin and progress of run r
    sessionAborted,      \* ghost: _abort_battle has been entered
    reply,               \* the interaction response sent by the last step:
                         \* for which callback, to whom, and the message
                         \* (NoReply when the step sent none); a step whose
                         \* editMessage returned False records "edit_failed";
                         \* blank (ghost) tells that a field submitted in
                         \* the step held nothing but whitespace
    nclicks,             \* button clicks so far
    \* src/modules/AIHandler.py
    client_locks,        \* _client_locks: api key -> lock (0: no entry)
    client_locks_lock,   \* _client_locks_lock: the thread holding it, or 0
    lock_holder,         \* lock_holder[l]: the thread holding lock l, or 0
    nlocks,              \* threading.Lock objects created so far
    ai_thread,           \* ai_thread[t]: position of thread t in its call,
                         \* its api key, the lock _get_lock_for_api_key
                         \* returned to it, and how its last call ended
    \* two QuickBattleRequest objects side by side
    ms_lists,            \* the list objects: identity -> content
    ms_dicts,            \* the dict objects: identity -> keys
    ms_ndicts,           \* dict objects created so far
    session,             \* session[x]: the fields of QuickBattleRequest x
                         \* (participants and submissions hold identities)
    actor,               \* the session the last step acted on
    \* src/web/metrics.py, MetricsCollector
    mc_running,          \* _collector_running
    mc_pending,          \* _pending_rows
    mc_db,               \* mc_db[row]: times the row was handed to insert_batch
    mc_last_flush,       \* _last_flush_time
    mc_now,              \* time.time()
    mc_stored,           \* rows stored by _store_metrics so far
    mc_flusher,          \* mc_flusher[f]: position of the collector thread
                         \* ("col") and of the caller of stop() ("stop"), and
                         \* the local `rows` of _maybe_flush_to_db
    mc_before            \* ghost: rows stored when stop() was called

mainVars == <<timeout, custom_environment, timeelapsed, timer_running, timer,
              timer_alive, tick_pc, participants, embed, ui, shown, tasks, cur,
              inflight, modals, phase, nruns, seqlog, sessionAborted, reply,
              nclicks>>

aiVars == <<client_locks, client_locks_lock, lock_holder, nlocks, ai_thread>>

msVars == <<ms_lists, ms_dicts, ms_ndicts, session, actor>>

mcVars == <<mc_running, mc_pending, mc_db, mc_last_flush, mc_now, mc_stored,
            mc_flusher, mc_before>>

\* the state outside the quick-battle session
sideVars == <<aiVars, msVars, mcVars>>

vars == <<mainVars, sideVars>>

cfgVars == <<timeout, custom_environment, nclicks, sideVars>>
inputVars == <<timeout, custom_environment, sideVars>>
timerVars == <<timeelapsed, timer_running, timer, timer_alive, tick_pc>>
viewVars == <<embed, ui, shown>>
seqVars == <<phase, nruns, seqlog>>

\* ---------------------------------------------------------------- helpers
Range(f) == {f[i] : i \in DOMAIN f}

\* list.remove(x): drops the first occurrence of x
RECURSIVE RemoveFirst(_, _)
RemoveFirst(seq, x) ==
    IF seq = <<>> THEN <<>>
    ELSE IF Head(seq) = x THEN Tail(seq)
    ELSE <<Head(seq)>> \o RemoveFirst(Tail(seq), x)

NoTask == [k |-> "none", u |-> 0, r |-> 0, s |-> "-", pc |-> "-"]

Task(k, u, r, s, pc) == [k |-> k, u |-> u, r |-> r, s |-> s, pc |-> pc]

One(t) == SetToBag({t})

NoReply == [k |-> "none", u |-> 0, r |-> 0, s |-> "-", msg |-> "none",
            blank |-> FALSE]

Reply(c, msg) == [k |-> c.k, u |-> c.u, r |-> c.r, s |-> c.s, msg |-> msg,
                  blank |-> FALSE]

NTasks == BagCardinality(tasks) + (IF cur = NoTask THEN 0 ELSE 1)

\* the event loop is free to run a task step: no task is inside a
\* synchronous section
LoopFree == cur = NoTask

NoPhase == [view |-> "unset", message |-> FALSE, shown |-> "none",
            listed |-> {},
            submissions |-> [u \in Users |-> 0],
            strategy |-> [u \in Users |-> 0],
            completed |-> FALSE, aborted |-> FALSE, outcome |-> "none"]

\* what one execution of _async_timeout has done: who started it, the
\* generation calls issued (combine, gen), narratives returned (got),
\* results saved, narratives sent, error messages sent, and how it ended
NoRun == [origin |-> "none", combine |-> 0, gen |-> 0, got |-> 0,
          saved |-> 0, narrated |-> 0, error |-> 0, ended |-> "no"]

\* ---------------------------------------------------------------- Init
\* QuickBattleRequest.__init__: the owner is the only participant, the
\* first Timer is started and _async_initialize is queued on the loop.
InitWith(T) ==
    /\ timeout \in T
    /\ custom_environment \in BOOLEAN
    /\ timeelapsed = 0
    /\ timer_running = TRUE
    /\ timer = "pending"
    /\ timer_alive = TRUE
    /\ tick_pc = "idle"
    /\ participants = <<Owner>>
    /\ embed = "none"
    /\ ui = "none"
    /\ shown = [embed |-> "none", view |-> "none"]
    /\ tasks = One(Task("init", 0, 0, "-", "queued"))
    /\ cur = NoTask
    /\ inflight = {}
    /\ modals = {}
    /\ phase = [r \in Runs |-> [s \in Stages |-> NoPhase]]
    /\ nruns = 0
    /\ seqlog = [r \in Runs |-> NoRun]
    /\ sessionAborted = FALSE
    /\ reply = NoReply
    /\ nclicks = 0


\* ------------------------------------------------------- the timer thread
\* threading.Timer.run: the Timer started by __init__ or by the previous
\* tick expires and calls __tick__ on its own thread.  (One second
\* separates two expiries: a Timer expires only when the previous tick has
\* returned.)
TimerFires ==
    /\ timer_alive
    /\ tick_pc = "idle"
    /\ timer_alive' = FALSE
    /\ timer' = IF timer = "pending" THEN "stale" ELSE timer
    /\ tick_pc' = "check"
    /\ UNCHANGED <<sideVars, nclicks, timeout, custom_environment, timeelapsed, timer_running,
                   participants, embed, ui, shown, tasks, cur, inflight,
                   modals, phase, nruns, seqlog, sessionAborted>>
    /\ reply' = NoReply

\* the timeout test one tick early
TimedOut_OneEarly(elapsed, limit) == elapsed + 1 >= limit

\* the comparison of __tick__ line 683
TimedOut(elapsed, limit) == elapsed >= limit

\* __tick__ line 680-681: if not self._timer_running: return
Tick_CheckRunning ==
    /\ tick_pc = "check"
    /\ tick_pc' = IF timer_running THEN "incr" ELSE "idle"
    /\ UNCHANGED <<sideVars, nclicks, timeout, custom_environment, timeelapsed, timer_running,
                   timer, timer_alive, participants, embed, ui, shown, tasks,
                   cur, inflight, modals, phase, nruns, seqlog, sessionAborted>>
    /\ reply' = NoReply

\* the counter going down
Incremented_Down(elapsed) == elapsed - 1

\* `self.timeelapsed += 1` of __tick__ line 682
Incremented(elapsed) == elapsed + 1

\* __tick__ line 682-685: self.timeelapsed += 1, then the timeout test
Tick_Increment ==
    /\ tick_pc = "incr"
    /\ timeelapsed' = Incremented(timeelapsed)
    /\ tick_pc' = IF TimedOut(Incremented(timeelapsed), timeout) THEN "to_flag"
                  ELSE "recheck"
    /\ UNCHANGED <<sideVars, nclicks, timeout, custom_environment, timer_running, timer,
                   timer_alive, participants, embed, ui, shown, tasks, cur,
                   inflight, modals, phase, nruns, seqlog, sessionAborted>>
    /\ reply' = NoReply

\* __tick__ line 687: if self._timer_running:
Tick_Recheck ==
    /\ tick_pc = "recheck"
    /\ tick_pc' = IF timer_running THEN "rearm" ELSE "idle"
    /\ UNCHANGED <<sideVars, nclicks, timeout, custom_environment, timeelapsed, timer_running,
                   timer, timer_alive, participants, embed, ui, shown, tasks,
                   cur, inflight, modals, phase, nruns, seqlog, sessionAborted>>
    /\ reply' = NoReply

\* __tick__ line 688-689: self.timer = Timer(1, self.__tick__); start()
Tick_Rearm ==
    /\ tick_pc = "rearm"
    /\ timer' = "pending"
    /\ timer_alive' = TRUE
    /\ tick_pc' = "update"
    /\ UNCHANGED <<sideVars, nclicks, timeout, custom_environment, timeelapsed, timer_running,
                   participants, embed, ui, shown, tasks, cur, inflight,
                   modals, phase, nruns, seqlog, sessionAborted>>
    /\ reply' = NoReply

\* __tick__ line 690, __update__: __update_embed() and the thread-safe
\* hand-off of _async_update_message to the loop
Tick_Update ==
    /\ tick_pc = "update"
    /\ embed' = "roster"
    /\ tasks' = tasks (+) One(Task("upd", 0, 0, "-", "queued"))
    /\ tick_pc' = "idle"
    /\ UNCHANGED <<sideVars, nclicks, timeout, custom_environment, timeelapsed, timer_running,
                   timer, timer_alive, participants, ui, shown, cur, inflight,
                   modals, phase, nruns, seqlog, sessionAborted>>
    /\ reply' = NoReply

\* __timeout__ line 739: self._timer_running = False
Timeout_ClearFlag ==
    /\ tick_pc = "to_flag"
    /\ timer_running' = FALSE
    /\ tick_pc' = "to_chk"
    /\ UNCHANGED <<sideVars, nclicks, timeout, custom_environment, timeelapsed, timer,
                   timer_alive, participants, embed, ui, shown, tasks, cur,
                   inflight, modals, phase, nruns, seqlog, sessionAborted>>
    /\ reply' = NoReply

\* __timeout__ line 740: if self.timer is not None:
Timeout_CheckTimer ==
    /\ tick_pc = "to_chk"
    /\ tick_pc' = IF timer # "none" THEN "to_cancel" ELSE "to_handoff"
    /\ UNCHANGED <<sideVars, nclicks, timeout, custom_environment, timeelapsed, timer_running,
                   timer, timer_alive, participants, embed, ui, shown, tasks,
                   cur, inflight, modals, phase, nruns, seqlog, sessionAborted>>
    /\ reply' = NoReply

\* __timeout__ line 741: self.timer.cancel().  The attribute is read
\* again: when the loop has set it to None in between, the call raises
\* AttributeError and the timer thread dies before the hand-off.
Timeout_Cancel ==
    /\ tick_pc = "to_cancel"
    /\ IF timer = "none"
       THEN /\ tick_pc' = "idle"
            /\ UNCHANGED <<timer, timer_alive>>
       ELSE /\ tick_pc' = "to_drop"
            /\ timer_alive' = IF timer = "pending" THEN FALSE ELSE timer_alive
            /\ timer' = "stale"
    /\ UNCHANGED <<sideVars, nclicks, timeout, custom_environment, timeelapsed, timer_running,
                   participants, embed, ui, shown, tasks, cur, inflight,
                   modals, phase, nruns, seqlog, sessionAborted>>
    /\ reply' = NoReply

\* __timeout__ line 742: self.timer = None
Timeout_DropHandle ==
    /\ tick_pc = "to_drop"
    /\ timer' = "none"
    /\ tick_pc' = "to_handoff"
    /\ UNCHANGED <<sideVars, nclicks, timeout, custom_environment, timeelapsed, timer_running,
                   timer_alive, participants, embed, ui, shown, tasks, cur,
                   inflight, modals, phase, nruns, seqlog, sessionAborted>>
    /\ reply' = NoReply

\* __timeout__ line 744-750: __update_embed() and the thread-safe hand-off
\* of _async_timeout_complete to the loop
Timeout_HandOff ==
    /\ tick_pc = "to_handoff"
    /\ embed' = "roster"
    /\ tasks' = tasks (+) One(Task("tmo", 0, 0, "-", "queued"))
    /\ tick_pc' = "idle"
    /\ UNCHANGED <<sideVars, nclicks, timeout, custom_environment, timeelapsed, timer_running,
                   timer, timer_alive, participants, ui, shown, cur, inflight,
                   modals, phase, nruns, seqlog, sessionAborted>>
    /\ reply' = NoReply

TimerThread ==
    \/ TimerFires
    \/ Tick_CheckRunning
    \/ Tick_Increment
    \/ Tick_Recheck
    \/ Tick_Rearm
    \/ Tick_Update
    \/ Timeout_ClearFlag
    \/ Timeout_CheckTimer
    \/ Timeout_Cancel
    \/ Timeout_DropHandle
    \/ Timeout_HandOff


\* ------------------------------------------------------------ user clicks
Click(k, u, r, s) == [k |-> k, u |-> u, r |-> r, s |-> s]

\* A user presses one of the four buttons of the roster message; the
\* buttons exist while the message displays the view built by __update_ui.
ClickRosterOf(kinds) ==
    \E k \in kinds, u \in Users :
        /\ shown.view = "full"
        /\ Cardinality(inflight) < MaxInflight
        /\ Click(k, u, 0, "-") \notin inflight
        /\ inflight' = inflight \cup {Click(k, u, 0, "-")}
        /\ nclicks < MaxClicks
        /\ nclicks' = nclicks + 1
        /\ UNCHANGED <<inputVars, timerVars, participants, viewVars, tasks, cur,
                       modals, seqVars, sessionAborted>>
        /\ reply' = NoReply

ClickRoster == ClickRosterOf({"join", "leave", "start", "abort"})

\* the same when nobody presses Start or Abort on the roster message
ClickJoinLeave == ClickRosterOf({"join", "leave"})

\* A user presses the submit button or the abort button of a phase prompt;
\* the buttons exist while the prompt displays them, and a press reaches
\* its callback only when the sendMessage that carried the view has
\* returned (self.message is set in the same step).
ClickPrompt ==
    \E k \in {"open", "pabort"}, u \in Users, r \in Runs, s \in Stages :
        /\ phase[r][s].shown = "prompt_buttons"
        /\ phase[r][s].message
        /\ Cardinality(inflight) < MaxInflight
        /\ Click(k, u, r, s) \notin inflight
        /\ inflight' = inflight \cup {Click(k, u, r, s)}
        /\ nclicks < MaxClicks
        /\ nclicks' = nclicks + 1
        /\ UNCHANGED <<inputVars, timerVars, participants, viewVars, tasks, cur,
                       modals, seqVars, sessionAborted>>
        /\ reply' = NoReply

\* ------------------------------------------------- roster button callbacks
\* `interaction.user not in self.request.participants`
InRoster(u) == u \in Range(participants)

\* the owner test passing for every user
IsOwner_Anyone(u) == u \in Users

\* `interaction.user != self.request.owner` (and CreatorAbortButton's
\* `interaction.user != self.owner`)
IsOwner(u) == u = Owner

\* a join that is never refused
MayJoin_Always(u) == TRUE

\* the whole guard of JoinButton.callback
MayJoin(u) == ~InRoster(u)

\* the whole guard of LeaveButton.callback
MayLeave(u) == InRoster(u)

\* JoinButton.callback up to its first await: the membership test, the
\* append and the reply
JoinButton_callback ==
    \E c \in inflight :
        /\ c.k = "join"
        /\ LoopFree
        /\ NTasks < MaxTasks
        /\ inflight' = inflight \ {c}
        /\ IF MayJoin(c.u)
           THEN /\ participants' = Append(participants, c.u)
                /\ tasks' = tasks (+) One(Task("join", c.u, 0, "-", "reply_ok"))
                /\ reply' = Reply(c, "joined_message")
           ELSE /\ participants' = participants
                /\ tasks' = tasks
                /\ reply' = Reply(c, "already_joined")
        /\ UNCHANGED <<cfgVars, timerVars, viewVars, cur, modals, seqVars,
                       sessionAborted>>

\* LeaveButton.callback up to its first await
LeaveButton_callback ==
    \E c \in inflight :
        /\ c.k = "leave"
        /\ LoopFree
        /\ NTasks < MaxTasks
        /\ inflight' = inflight \ {c}
        /\ IF MayLeave(c.u)
           THEN /\ participants' = RemoveFirst(participants, c.u)
                /\ tasks' = tasks (+) One(Task("leave", c.u, 0, "-", "reply_ok"))
                /\ reply' = Reply(c, "left_message")
           ELSE /\ participants' = participants
                /\ tasks' = tasks
                /\ reply' = Reply(c, "not_joined")
        /\ UNCHANGED <<cfgVars, timerVars, viewVars, cur, modals, seqVars,
                       sessionAborted>>

\* __update_async__, reached after the reply of a join or a leave:
\* __update_embed(), __update_ui() and the edit of the roster message
Roster_update_async ==
    \E t \in BagToSet(tasks) :
        /\ t.k \in {"join", "leave"}
        /\ t.pc = "reply_ok"
        /\ LoopFree
        /\ embed' = "roster"
        /\ ui' = "full"
        /\ shown' = [embed |-> "roster", view |-> "full"]
        /\ tasks' = tasks (-) One(t)
        /\ UNCHANGED <<cfgVars, timerVars, participants, cur, inflight,
                       modals, seqVars, sessionAborted>>
        /\ reply' = NoReply

\* StartButton.callback and AbortButton.callback up to the first await:
\* the owner test and the reply
OwnerButton_callback ==
    \E c \in inflight :
        /\ c.k \in {"start", "abort"}
        /\ LoopFree
        /\ NTasks < MaxTasks
        /\ inflight' = inflight \ {c}
        /\ IF IsOwner(c.u)
           THEN /\ tasks' = tasks (+) One(Task(c.k, c.u, 0, "-", "reply_ok"))
                /\ reply' = Reply(c, IF c.k = "start" THEN "battle_starting"
                                      ELSE "battle_aborted")
           ELSE /\ tasks' = tasks
                /\ reply' = Reply(c, IF c.k = "start" THEN "only_owner_can_start"
                                      ELSE "only_owner_can_abort")
        /\ UNCHANGED <<cfgVars, timerVars, participants, viewVars, cur,
                       modals, seqVars, sessionAborted>>

\* ------------------------------------------- tasks queued from the thread
\* _async_initialize: __update_embed(), __update_ui(), editMessage
Async_initialize ==
    \E t \in BagToSet(tasks) :
        /\ t.k = "init" /\ t.pc = "queued"
        /\ LoopFree
        /\ embed' = "roster"
        /\ ui' = "full"
        /\ shown' = [embed |-> "roster", view |-> "full"]
        /\ tasks' = tasks (-) One(t)
        /\ UNCHANGED <<cfgVars, timerVars, participants, cur, inflight,
                       modals, seqVars, sessionAborted>>
        /\ reply' = NoReply

\* _async_update_message: __update_ui(), editMessage(embed, view)
Async_update_message ==
    \E t \in BagToSet(tasks) :
        /\ t.k = "upd" /\ t.pc = "queued"
        /\ LoopFree
        /\ ui' = "full"
        /\ shown' = [embed |-> embed, view |-> "full"]
        /\ embed' = embed
        /\ tasks' = tasks (-) One(t)
        /\ UNCHANGED <<cfgVars, timerVars, participants, cur, inflight,
                       modals, seqVars, sessionAborted>>
        /\ reply' = NoReply

\* _async_timeout_complete up to its first await: the empty view and the
\* edit of the roster message
Async_timeout_complete ==
    \E t \in BagToSet(tasks) :
        /\ t.k = "tmo" /\ t.pc = "queued"
        /\ LoopFree
        /\ ui' = "empty"
        /\ shown' = [embed |-> embed, view |-> "empty"]
        /\ embed' = embed
        /\ tasks' = (tasks (-) One(t)) (+) One([t EXCEPT !.pc = "edit"])
        /\ UNCHANGED <<cfgVars, timerVars, participants, cur, inflight,
                       modals, seqVars, sessionAborted>>
        /\ reply' = NoReply

\* ------------------------------------------------- the timer stop sequence
\* _start_battle line 765 and _abort_battle line 785, entered when the
\* reply of the owner's click has been sent: self._timer_running = False.
\* The task keeps the loop until its next await.
Stop_ClearFlag ==
    \E t \in BagToSet(tasks) :
        /\ t.k \in {"start", "abort"} /\ t.pc = "reply_ok"
        /\ LoopFree
        /\ timer_running' = FALSE
        /\ sessionAborted' = (sessionAborted \/ t.k = "abort")
        /\ tasks' = tasks (-) One(t)
        /\ cur' = [t EXCEPT !.pc = "stop_chk"]
        /\ UNCHANGED <<cfgVars, timeelapsed, timer, timer_alive, tick_pc,
                       participants, viewVars, inflight, modals, seqVars>>
        /\ reply' = NoReply

\* line 766 / 786: if self.timer is not None:
Stop_CheckTimer ==
    /\ cur.pc = "stop_chk"
    /\ cur' = [cur EXCEPT !.pc = IF timer # "none" THEN "stop_cancel"
                                 ELSE "stop_done"]
    /\ UNCHANGED <<cfgVars, timerVars, participants, viewVars, tasks,
                   inflight, modals, seqVars, sessionAborted>>
    /\ reply' = NoReply

\* line 767 / 787: self.timer.cancel().  When the timer thread has set
\* the attribute to None in between, the call raises AttributeError and
\* the callback ends there.
Stop_Cancel ==
    /\ cur.pc = "stop_cancel"
    /\ IF timer = "none"
       THEN /\ cur' = NoTask
            /\ UNCHANGED <<timer, timer_alive>>
       ELSE /\ cur' = [cur EXCEPT !.pc = "stop_drop"]
            /\ timer_alive' = IF timer = "pending" THEN FALSE ELSE timer_alive
            /\ timer' = "stale"
    /\ UNCHANGED <<cfgVars, timeelapsed, timer_running, tick_pc, participants,
                   viewVars, tasks, inflight, modals, seqVars, sessionAborted>>
    /\ reply' = NoReply

\* line 768 / 788: self.timer = None
Stop_DropHandle ==
    /\ cur.pc = "stop_drop"
    /\ timer' = "none"
    /\ cur' = [cur EXCEPT !.pc = "stop_done"]
    /\ UNCHANGED <<cfgVars, timeelapsed, timer_running, timer_alive, tick_pc,
                   participants, viewVars, tasks, inflight, modals, seqVars,
                   sessionAborted>>
    /\ reply' = NoReply

\* _start_battle line 771-773: __update_embed(), the empty view and the
\* edit of the roster message
Start_ClearUI ==
    /\ cur.pc = "stop_done" /\ cur.k = "start"
    /\ embed' = "roster"
    /\ ui' = "empty"
    /\ shown' = [embed |-> "roster", view |-> "empty"]
    /\ tasks' = tasks (+) One([cur EXCEPT !.pc = "edit"])
    /\ cur' = NoTask
    /\ UNCHANGED <<cfgVars, timerVars, participants, inflight, modals,
                   seqVars, sessionAborted>>
    /\ reply' = NoReply

\* _abort_battle line 791-798: self.embed becomes the aborted embed
Abort_SetEmbed ==
    /\ cur.pc = "stop_done" /\ cur.k = "abort"
    /\ embed' = "aborted"
    /\ cur' = [cur EXCEPT !.pc = "ab_edit"]
    /\ UNCHANGED <<cfgVars, timerVars, participants, ui, shown, tasks,
                   inflight, modals, seqVars, sessionAborted>>
    /\ reply' = NoReply

\* _abort_battle line 801-802: the empty view and the edit of the roster
\* message with self.embed as it is read now
Abort_ClearUI ==
    /\ cur.pc = "ab_edit"
    /\ ui' = "empty"
    /\ shown' = [embed |-> embed, view |-> "empty"]
    /\ embed' = embed
    /\ tasks' = tasks
    /\ cur' = NoTask
    /\ UNCHANGED <<cfgVars, timerVars, participants, inflight, modals,
                   seqVars, sessionAborted>>
    /\ reply' = NoReply


\* ------------------------------------------------------ collection phases
\* self.participants of a Creator: the session's participants list itself
\* (EnvironmentCreator, FighterCreator) or the fighters dict returned by
\* get_fighters (StrategyCreator), read when it is used
Audience(r, s) ==
    IF s = "str" THEN {u \in Users : phase[r]["fig"].submissions[u] > 0}
    ELSE Range(participants)

\* the membership test passing for every user
InAudience_Anyone(u, r, s) == u \in Users

\* `interaction.user not in self.creator.participants`
InAudience(u, r, s) == u \in Audience(r, s)

\* the keys of self.submissions
Keys(r, s) == {u \in Users : phase[r][s].submissions[u] > 0}

\* `interaction.user in self.creator.submissions`
HasSubmitted(u, r, s) == phase[r][s].submissions[u] > 0

\* a remaining list that is always empty
Remaining_Nobody(r, s) == {}

\* `[p for p in self.creator.participants if p not in self.creator.submissions]`
Remaining(r, s) == {u \in Audience(r, s) : ~HasSubmitted(u, r, s)}

\* on_submit without the `in self.creator.submissions` test
SubmitOutcome_NoDuplicateTest(u, r, s, valid) ==
    IF ~InAudience(u, r, s) THEN "not_participant"
    ELSE IF ~valid THEN "empty_input"
    ELSE "submitted"

\* The answer of Modal.on_submit (same tests, same order, in the three
\* modals): "submitted" when the submission is stored
SubmitOutcome(u, r, s, valid) ==
    IF ~InAudience(u, r, s) THEN "not_participant"
    ELSE IF HasSubmitted(u, r, s) THEN "already_submitted"
    ELSE IF ~valid THEN "empty_input"
    ELSE "submitted"

\* The answer of Creator._button_callback: "modal" when the modal is sent
OpenOutcome(u, r, s) ==
    IF ~InAudience(u, r, s) THEN "not_participant"
    ELSE IF HasSubmitted(u, r, s) THEN "already_submitted"
    ELSE "modal"

\* self.creator.submissions[interaction.user] = ... (the stored value is
\* the number of times the entry was written), and for the strategy modal
\* also self.creator.participants[interaction.user].strategy = ..., a
\* write to the Fighter object held by the FighterCreator of the same run
Store(ph, u, r, s) ==
    LET a == [ph EXCEPT ![r][s].submissions[u] = @ + 1]
    IN IF s = "str" THEN [a EXCEPT ![r]["fig"].strategy[u] = @ + 1] ELSE a

\* .strip() of the leading whitespace
RECURSIVE LStrip(_)
LStrip(text) ==
    IF text # <<>> /\ Head(text) = " " THEN LStrip(Tail(text)) ELSE text

\* .strip() of the trailing whitespace
RECURSIVE RStrip(_)
RStrip(text) ==
    IF text # <<>> /\ text[Len(text)] = " "
    THEN RStrip(SubSeq(text, 1, Len(text) - 1))
    ELSE text

\* a strip that removes nothing
Strip_Nothing(text) == text

\* str.strip() as on_submit applies it to the value of a field
Strip(text) == RStrip(LStrip(text))

\* the fields a modal of stage s has: FighterModal has name_input and
\* description_input, the other two have one input
Fields(s) == IF s = "fig" THEN {1, 2} ELSE {1}

\* the empty-input test of on_submit passes: `not name or not description`
\* (FighterModal), `not strategy_text`, `not environment_text` are all false
NonEmptyInput(s, input) == \A i \in Fields(s) : Strip(input[i]) # <<>>

\* a field of the input holds nothing but whitespace
BlankInput(s, input) ==
    \E i \in Fields(s) : \A j \in DOMAIN input[i] : input[i][j] = " "

\* Creator._button_callback
Creator_button_callback ==
    \E c \in inflight :
        /\ c.k = "open"
        /\ LoopFree
        /\ NTasks < MaxTasks
        /\ inflight' = inflight \ {c}
        /\ LET o == OpenOutcome(c.u, c.r, c.s) IN
            /\ modals' = IF o = "modal"
                         THEN modals \cup {[u |-> c.u, r |-> c.r, s |-> c.s]}
                         ELSE modals
            /\ reply' = Reply(c, o)
        /\ UNCHANGED <<cfgVars, timerVars, participants, viewVars, cur,
                       tasks, seqVars, sessionAborted>>

\* Modal.on_submit up to its first await.  The user submits one of the
\* modals on the screen with the texts typed into its fields; more says
\* whether another modal of the same creator stays open, the user having
\* pressed the button more than once.
Modal_on_submit ==
    \E m \in modals, more \in BOOLEAN :
      \E input \in [Fields(m.s) -> Texts] :
        /\ LoopFree
        /\ NTasks < MaxTasks
        /\ modals' = IF more THEN modals ELSE modals \ {m}
        /\ LET o == SubmitOutcome(m.u, m.r, m.s, NonEmptyInput(m.s, input)) IN
            /\ phase' = IF o = "submitted" THEN Store(phase, m.u, m.r, m.s)
                         ELSE phase
            /\ tasks' = IF o = "submitted"
                         THEN tasks (+) One(Task("submit", m.u, m.r, m.s, "reply_ok"))
                         ELSE tasks
            /\ reply' = [k |-> "submit", u |-> m.u, r |-> m.r, s |-> m.s,
                          msg |-> o, blank |-> BlankInput(m.s, input)]
        /\ UNCHANGED <<cfgVars, timerVars, participants, viewVars, cur,
                       inflight, nruns, seqlog, sessionAborted>>

\* what the prompt shows after editMessage(self.creator.message, embed=
\* <prompt embed>, view=self.creator.view); the edit fails without effect
\* while self.message is still None
ShownAfterRerender(p) ==
    IF ~p.message THEN p.shown
    ELSE IF p.view = "buttons" THEN "prompt_buttons" ELSE "prompt_cleared"

\* the re-render of on_submit: editMessage(self.creator.message, embed=
\* <embed listing remaining>, view=self.creator.view)
Rerendered(ph, r, s, remaining) ==
    [ph EXCEPT ![r][s].shown = ShownAfterRerender(ph[r][s]),
               ![r][s].listed = IF ph[r][s].message THEN remaining ELSE @]

\* Modal.on_submit after the reply: the remaining list, then either the
\* re-render of the prompt or self.creator.completed.set()
Modal_after_reply ==
    \E t \in BagToSet(tasks) :
        /\ t.k = "submit" /\ t.pc = "reply_ok"
        /\ LoopFree
        /\ IF Remaining(t.r, t.s) # {}
           THEN /\ phase' = Rerendered(phase, t.r, t.s, Remaining(t.r, t.s))
           ELSE /\ phase' = [phase EXCEPT ![t.r][t.s].completed = TRUE]
        /\ tasks' = tasks (-) One(t)
        /\ UNCHANGED <<cfgVars, timerVars, participants, viewVars, cur,
                       inflight, modals, nruns, seqlog, sessionAborted>>
        /\ reply' = NoReply

\* CreatorAbortButton.callback up to its first await
CreatorAbortButton_callback ==
    \E c \in inflight :
        /\ c.k = "pabort"
        /\ LoopFree
        /\ NTasks < MaxTasks
        /\ inflight' = inflight \ {c}
        /\ IF IsOwner(c.u)
           THEN /\ tasks' = tasks (+) One(Task("pabort", c.u, c.r, c.s, "reply_ok"))
                /\ reply' = Reply(c, "battle_aborted")
           ELSE /\ tasks' = tasks
                /\ reply' = Reply(c, "only_owner_can_abort")
        /\ UNCHANGED <<cfgVars, timerVars, participants, viewVars, cur,
                       modals, seqVars, sessionAborted>>

\* Creator._abort up to its await: the aborted flag, view.clear_items()
\* and the edit that renders the aborted embed
Creator_abort ==
    \E t \in BagToSet(tasks) :
        /\ t.k = "pabort" /\ t.pc = "reply_ok"
        /\ LoopFree
        /\ phase' = [phase EXCEPT
               ![t.r][t.s].aborted = TRUE,
               ![t.r][t.s].view = "cleared",
               ![t.r][t.s].shown = IF phase[t.r][t.s].message THEN "aborted"
                                   ELSE @,
               ![t.r][t.s].listed = IF phase[t.r][t.s].message THEN {} ELSE @]
        /\ tasks' = (tasks (-) One(t)) (+) One([t EXCEPT !.pc = "edit"])
        /\ UNCHANGED <<cfgVars, timerVars, participants, viewVars, cur,
                       inflight, modals, nruns, seqlog, sessionAborted>>
        /\ reply' = NoReply

\* Creator._abort after its await: self.completed.set()
Creator_abort_set ==
    \E t \in BagToSet(tasks) :
        /\ t.k = "pabort" /\ t.pc = "edit"
        /\ LoopFree
        /\ phase' = [phase EXCEPT ![t.r][t.s].completed = TRUE]
        /\ tasks' = tasks (-) One(t)
        /\ UNCHANGED <<cfgVars, timerVars, participants, viewVars, cur,
                       inflight, modals, nruns, seqlog, sessionAborted>>
        /\ reply' = NoReply


\* ------------------------------------------------- the phase sequencer
\* a Creator after __init__ and the part of get_* before sendMessage: the
\* view holds the submit button and the abort button, and the prompt is
\* sent with them, its embed listing `remaining`, all of self.participants
NewPhase(remaining) ==
    [NoPhase EXCEPT !.view = "buttons", !.shown = "prompt_buttons",
                    !.listed = remaining]

\* the Environment phase first, whatever the mode
FirstStage_AlwaysEnv == "env"

\* _async_timeout line 806-815: the first Creator of a run
FirstStage == IF custom_environment THEN "env" ELSE "fig"

\* _async_timeout entered from _start_battle (line 777) or from
\* _async_timeout_complete (line 758) when the edit of the roster message
\* has returned; runs up to the await of the first prompt's sendMessage
Sequencer_begin ==
    \E t \in BagToSet(tasks) :
        /\ t.k \in {"start", "tmo"} /\ t.pc = "edit" /\ t.r = 0
        /\ LoopFree
        /\ nruns < MaxRuns
        /\ nruns' = nruns + 1
        /\ seqlog' = [seqlog EXCEPT ![nruns + 1].origin = t.k]
        /\ phase' = [phase EXCEPT ![nruns + 1][FirstStage] =
                                 NewPhase(Range(participants))]
        /\ tasks' = (tasks (-) One(t)) (+)
                    One(Task(t.k, t.u, nruns + 1, FirstStage, "send"))
        /\ UNCHANGED <<cfgVars, timerVars, participants, viewVars, cur,
                       inflight, modals, sessionAborted>>
        /\ reply' = NoReply

\* get_* from the return of `await self.completed.wait()` to its next
\* await or return: [ph, pc], pc = "end" when get_* returned None
AfterWait(ph, r, s) ==
    IF ph[r][s].aborted
    THEN [ph |-> [ph EXCEPT ![r][s].outcome = "aborted"], pc |-> "end"]
    ELSE [ph |-> [ph EXCEPT ![r][s].view = "cleared",
                            ![r][s].shown = IF @ = "aborted" THEN "aborted"
                                            ELSE "prompt_cleared"],
          pc |-> "clear"]

\* get_*: sendMessage returned, self.message is set, then
\* `await self.completed.wait()`, which does not suspend when the event is
\* already set
Creator_sent ==
    \E t \in BagToSet(tasks) :
        /\ t.k \in {"start", "tmo"} /\ t.pc = "send"
        /\ LoopFree
        /\ LET ph1 == [phase EXCEPT ![t.r][t.s].message = TRUE]
               nx == AfterWait(ph1, t.r, t.s)
           IN IF ~ph1[t.r][t.s].completed
              THEN /\ phase' = ph1
                   /\ seqlog' = seqlog
                   /\ tasks' = (tasks (-) One(t)) (+)
                               One([t EXCEPT !.pc = "wait"])
              ELSE /\ phase' = nx.ph
                   /\ IF nx.pc = "end"
                      THEN /\ seqlog' = [seqlog EXCEPT ![t.r].ended = "aborted"]
                           /\ tasks' = tasks (-) One(t)
                      ELSE /\ seqlog' = seqlog
                           /\ tasks' = (tasks (-) One(t)) (+)
                                       One([t EXCEPT !.pc = nx.pc])
        /\ UNCHANGED <<cfgVars, timerVars, participants, viewVars, cur,
                       inflight, modals, nruns, sessionAborted>>
        /\ reply' = NoReply

\* get_*: the task suspended in `await self.completed.wait()` resumes
Creator_woken ==
    \E t \in BagToSet(tasks) :
        /\ t.k \in {"start", "tmo"} /\ t.pc = "wait"
        /\ LoopFree
        /\ phase[t.r][t.s].completed
        /\ LET nx == AfterWait(phase, t.r, t.s)
           IN /\ phase' = nx.ph
              /\ IF nx.pc = "end"
                 THEN /\ seqlog' = [seqlog EXCEPT ![t.r].ended = "aborted"]
                      /\ tasks' = tasks (-) One(t)
                 ELSE /\ seqlog' = seqlog
                      /\ tasks' = (tasks (-) One(t)) (+)
                                  One([t EXCEPT !.pc = nx.pc])
        /\ UNCHANGED <<cfgVars, timerVars, participants, viewVars, cur,
                       inflight, modals, nruns, sessionAborted>>
        /\ reply' = NoReply

\* get_*: the edit that removed the buttons returned.  get_fighters and
\* get_strategy return the ledger and _async_timeout goes on to the next
\* prompt (line 819) or to the announcement (line 839); get_environment
\* calls combine_environment (line 460).
Creator_returns ==
    \E t \in BagToSet(tasks) :
        /\ t.k \in {"start", "tmo"} /\ t.pc = "clear"
        /\ LoopFree
        /\ LET ph1 == [phase EXCEPT ![t.r][t.s].outcome = "ledger"] IN
            \/ /\ t.s = "env"
               /\ phase' = ph1
               /\ seqlog' = [seqlog EXCEPT ![t.r].combine = @ + 1]
               /\ tasks' = (tasks (-) One(t)) (+)
                           One([t EXCEPT !.pc = "combine"])
            \/ /\ t.s = "fig"
               /\ phase' = [ph1 EXCEPT ![t.r]["str"] =
                                   NewPhase(Keys(t.r, "fig"))]
               /\ seqlog' = seqlog
               /\ tasks' = (tasks (-) One(t)) (+)
                           One([t EXCEPT !.s = "str", !.pc = "send"])
            \/ /\ t.s = "str"
               /\ phase' = ph1
               /\ seqlog' = seqlog
               /\ tasks' = (tasks (-) One(t)) (+)
                           One([t EXCEPT !.pc = "announce"])
        /\ UNCHANGED <<cfgVars, timerVars, participants, viewVars, cur,
                       inflight, modals, nruns, sessionAborted>>
        /\ reply' = NoReply

\* get_environment line 460-462 and _async_timeout line 810: the combined
\* environment came back and is sent to the channel
Environment_combined ==
    \E t \in BagToSet(tasks) :
        /\ t.k \in {"start", "tmo"} /\ t.pc = "combine"
        /\ LoopFree
        /\ tasks' = (tasks (-) One(t)) (+) One([t EXCEPT !.pc = "post"])
        /\ UNCHANGED <<cfgVars, timerVars, participants, viewVars, cur,
                       inflight, modals, seqVars, sessionAborted>>
        /\ reply' = NoReply

\* _async_timeout line 811-815: the FighterCreator after the custom
\* environment was sent
Environment_posted ==
    \E t \in BagToSet(tasks) :
        /\ t.k \in {"start", "tmo"} /\ t.pc = "post"
        /\ LoopFree
        /\ phase' = [phase EXCEPT ![t.r]["fig"] =
                                 NewPhase(Range(participants))]
        /\ tasks' = (tasks (-) One(t)) (+)
                    One([t EXCEPT !.s = "fig", !.pc = "send"])
        /\ UNCHANGED <<cfgVars, timerVars, participants, viewVars, cur,
                       inflight, modals, nruns, seqlog, sessionAborted>>
        /\ reply' = NoReply

\* _async_timeout line 839-840: the announcement was sent, the
\* generation call is issued
Battle_evaluate ==
    \E t \in BagToSet(tasks) :
        /\ t.k \in {"start", "tmo"} /\ t.pc = "announce"
        /\ LoopFree
        /\ seqlog' = [seqlog EXCEPT ![t.r].gen = @ + 1]
        /\ tasks' = (tasks (-) One(t)) (+) One([t EXCEPT !.pc = "gen"])
        /\ UNCHANGED <<cfgVars, timerVars, participants, viewVars, cur,
                       inflight, modals, phase, nruns, sessionAborted>>
        /\ reply' = NoReply

\* _async_timeout line 841-842: the narrative came back, is saved and
\* sent to the channel
Battle_save_and_send ==
    \E t \in BagToSet(tasks) :
        /\ t.k \in {"start", "tmo"} /\ t.pc = "gen"
        /\ LoopFree
        /\ seqlog' = [seqlog EXCEPT ![t.r].got = @ + 1,
                                    ![t.r].saved = @ + 1,
                                    ![t.r].narrated = @ + 1]
        /\ tasks' = (tasks (-) One(t)) (+) One([t EXCEPT !.pc = "broadcast"])
        /\ UNCHANGED <<cfgVars, timerVars, participants, viewVars, cur,
                       inflight, modals, phase, nruns, sessionAborted>>
        /\ reply' = NoReply

\* _async_timeout returns, and with it _start_battle or
\* _async_timeout_complete
Sequencer_returns ==
    \E t \in BagToSet(tasks) :
        /\ t.k \in {"start", "tmo"} /\ t.pc = "broadcast"
        /\ LoopFree
        /\ seqlog' = [seqlog EXCEPT ![t.r].ended = "done"]
        /\ tasks' = tasks (-) One(t)
        /\ UNCHANGED <<cfgVars, timerVars, participants, viewVars, cur,
                       inflight, modals, phase, nruns, sessionAborted>>
        /\ reply' = NoReply

\* ------------------------------------------------------------ failures
\* An exception leaves _async_timeout.  _start_battle (line 778-781)
\* logs it and sends errors.quick-battle_error to the channel;
\* _async_timeout_complete (line 759-760) logs it.
Raised(sl, t) ==
    [sl EXCEPT ![t.r].ended = "failed",
               ![t.r].error = IF t.k = "start" THEN @ + 1 ELSE @]

\* _async_timeout line 840: generate_response raises RuntimeError
\* (AIHandler line 86, 107)
Battle_evaluate_raises ==
    \E t \in BagToSet(tasks) :
        /\ t.k \in {"start", "tmo"} /\ t.pc = "gen"
        /\ LoopFree
        /\ seqlog' = Raised(seqlog, t)
        /\ tasks' = tasks (-) One(t)
        /\ UNCHANGED <<cfgVars, timerVars, participants, viewVars, cur,
                       inflight, modals, phase, nruns, sessionAborted>>
        /\ reply' = NoReply

\* _async_timeout line 841: the narrative came back and
\* save_battle_result raises (os.makedirs, open or write fails)
Battle_save_raises ==
    \E t \in BagToSet(tasks) :
        /\ t.k \in {"start", "tmo"} /\ t.pc = "gen"
        /\ LoopFree
        /\ seqlog' = Raised([seqlog EXCEPT ![t.r].got = @ + 1], t)
        /\ tasks' = tasks (-) One(t)
        /\ UNCHANGED <<cfgVars, timerVars, participants, viewVars, cur,
                       inflight, modals, phase, nruns, sessionAborted>>
        /\ reply' = NoReply

\* _async_timeout line 808 (get_environment line 460): the generation call
\* of combine_environment raises
Environment_combine_raises ==
    \E t \in BagToSet(tasks) :
        /\ t.k \in {"start", "tmo"} /\ t.pc = "combine"
        /\ LoopFree
        /\ seqlog' = Raised(seqlog, t)
        /\ tasks' = tasks (-) One(t)
        /\ UNCHANGED <<cfgVars, timerVars, participants, viewVars, cur,
                       inflight, modals, phase, nruns, sessionAborted>>
        /\ reply' = NoReply

\* a failed send after which get_* returns its ledger
SendFailed_ReturnsLedger(ph, r, s) ==
    [ph EXCEPT ![r][s].shown = "none",
               ![r][s].listed = {},
               ![r][s].completed = TRUE,
               ![r][s].outcome = "ledger"]

\* get_*: sendMessage returned None (utils.sendMessage caught the error),
\* so self.message stays None, nothing is displayed, and the Creator sets
\* aborted and completed and returns None
SendFailed(ph, r, s) ==
    [ph EXCEPT ![r][s].shown = "none",
               ![r][s].listed = {},
               ![r][s].aborted = TRUE,
               ![r][s].completed = TRUE,
               ![r][s].outcome = "aborted"]

\* get_* line 258-263 (and 101-106, 441-446) when the prompt cannot be
\* sent; _async_timeout returns at `if fighters is None`
Creator_send_fails ==
    \E t \in BagToSet(tasks) :
        /\ t.k \in {"start", "tmo"} /\ t.pc = "send"
        /\ LoopFree
        /\ phase' = SendFailed(phase, t.r, t.s)
        /\ seqlog' = [seqlog EXCEPT ![t.r].ended = "aborted"]
        /\ tasks' = tasks (-) One(t)
        /\ UNCHANGED <<cfgVars, timerVars, participants, viewVars, cur,
                       inflight, modals, nruns, sessionAborted>>
        /\ reply' = NoReply

\* the failed re-render drops the stored entry
RerenderFailed_DropsEntry(ph, u, r, s) ==
    [ph EXCEPT ![r][s].submissions[u] = 0]

\* on_submit when editMessage returns False: the return value is not
\* read, nothing is displayed and nothing is written
RerenderFailed(ph, u, r, s) == ph

\* Modal.on_submit after the reply when the edit of the prompt fails
\* (utils.editMessage returns False)
Modal_rerender_fails ==
    \E t \in BagToSet(tasks) :
        /\ t.k = "submit" /\ t.pc = "reply_ok"
        /\ LoopFree
        /\ Remaining(t.r, t.s) # {}
        /\ phase[t.r][t.s].message
        /\ phase' = RerenderFailed(phase, t.u, t.r, t.s)
        /\ tasks' = tasks (-) One(t)
        /\ UNCHANGED <<cfgVars, timerVars, participants, viewVars, cur,
                       inflight, modals, nruns, seqlog, sessionAborted>>
        /\ reply' = Reply(t, "edit_failed")

\* ------------------------------------------- the text-generation backend
\* src/modules/AIHandler.py.  The event-loop thread runs is_api_key_valid
\* (ConfigurationHandler.apply_button -> Guild.enableAI); the executor
\* threads run _generate_response_sync (generate_response,
\* run_in_executor).  One step is one lock operation, one dict operation
\* or the backend call.
LoopThread == 1
Workers == 2..(NWorkers + 1)
Threads == {LoopThread} \cup Workers

\* self.api_key of the handler a call is made on: `api_key or ""`
ApiKeys == {"", "A", "B"}

Locks == 1..MaxLocks

AIInit ==
    /\ client_locks = [k \in ApiKeys |-> 0]
    /\ client_locks_lock = 0
    /\ lock_holder = [l \in Locks |-> 0]
    /\ nlocks = 0
    /\ ai_thread = [t \in Threads |->
                       [pc |-> "idle", key |-> "", lock |-> 0, res |-> "none"]]

\* is_api_key_valid line 41-42 and _generate_response_sync line 73-74:
\* thread t enters a call on a handler with api key `key`; without a key
\* the call ends at once (return False, raise RuntimeError)
AI_Call(t, key) ==
    /\ ai_thread[t].pc = "idle"
    /\ ai_thread' = [ai_thread EXCEPT ![t] =
           IF key = ""
           THEN [pc |-> "idle", key |-> key, lock |-> 0, res |-> "no_key"]
           ELSE [pc |-> "reg_wait", key |-> key, lock |-> 0, res |-> "none"]]
    /\ UNCHANGED <<mainVars, msVars, mcVars, client_locks, client_locks_lock, lock_holder,
                   nlocks>>

\* a registry lock that never excludes
RegistryFree_Always == TRUE

\* `with _client_locks_lock:` can be entered
RegistryFree == client_locks_lock = 0

\* _get_lock_for_api_key line 14: `with _client_locks_lock:` entered
AI_RegistryAcquire(t) ==
    /\ ai_thread[t].pc = "reg_wait"
    /\ RegistryFree
    /\ client_locks_lock' = t
    /\ ai_thread' = [ai_thread EXCEPT ![t].pc = "reg_get"]
    /\ UNCHANGED <<mainVars, msVars, mcVars, client_locks, lock_holder, nlocks>>

\* line 15-16: lock = _client_locks.get(api_key); if lock is None:
AI_RegistryLookup(t) ==
    /\ ai_thread[t].pc = "reg_get"
    /\ ai_thread' = [ai_thread EXCEPT
           ![t].lock = client_locks[ai_thread[t].key],
           ![t].pc = IF client_locks[ai_thread[t].key] = 0 THEN "reg_new"
                     ELSE "reg_ret"]
    /\ UNCHANGED <<mainVars, msVars, mcVars, client_locks, client_locks_lock, lock_holder,
                   nlocks>>

\* line 17-18: lock = threading.Lock(); _client_locks[api_key] = lock
AI_RegistryCreate(t) ==
    /\ ai_thread[t].pc = "reg_new"
    /\ nlocks < MaxLocks
    /\ nlocks' = nlocks + 1
    /\ client_locks' = [client_locks EXCEPT ![ai_thread[t].key] = nlocks + 1]
    /\ ai_thread' = [ai_thread EXCEPT ![t].lock = nlocks + 1,
                                      ![t].pc = "reg_ret"]
    /\ UNCHANGED <<mainVars, msVars, mcVars, client_locks_lock, lock_holder>>

\* the registry lock staying with the thread that returns
RegistryReleased_Kept(t) == t

\* the holder of _client_locks_lock when thread t leaves the `with` block
RegistryReleased(t) == 0

\* line 19: return lock, leaving `with _client_locks_lock:`
AI_RegistryReturn(t) ==
    /\ ai_thread[t].pc = "reg_ret"
    /\ client_locks_lock' = RegistryReleased(t)
    /\ ai_thread' = [ai_thread EXCEPT ![t].pc = "key_wait"]
    /\ UNCHANGED <<mainVars, msVars, mcVars, client_locks, lock_holder, nlocks>>

\* a per-key lock that never excludes
KeyLockFree_Always(l) == TRUE

\* `with lock:` can be entered
KeyLockFree(l) == lock_holder[l] = 0

\* is_api_key_valid line 55 and _generate_response_sync line 97:
\* `with lock:` entered, the backend call begins
AI_KeyAcquire(t) ==
    /\ ai_thread[t].pc = "key_wait"
    /\ KeyLockFree(ai_thread[t].lock)
    /\ lock_holder' = [lock_holder EXCEPT ![ai_thread[t].lock] = t]
    /\ ai_thread' = [ai_thread EXCEPT ![t].pc = "backend"]
    /\ UNCHANGED <<mainVars, msVars, mcVars, client_locks, client_locks_lock, nlocks>>

\* generate_content returned: the `with lock:` block is left
AI_BackendReturns(t) ==
    /\ ai_thread[t].pc = "backend"
    /\ lock_holder' = [lock_holder EXCEPT ![ai_thread[t].lock] = 0]
    /\ ai_thread' = [ai_thread EXCEPT ![t].pc = "idle", ![t].res = "ok"]
    /\ UNCHANGED <<mainVars, msVars, mcVars, client_locks, client_locks_lock, nlocks>>

\* an exception that leaves the lock with the failed call
AfterRaise_StillHeld(holders, l) == holders

\* the lock holders when an exception leaves the `with lock:` block
AfterRaise(holders, l) == [holders EXCEPT ![l] = 0]

\* generate_content raised: the exception leaves the `with lock:` block
\* (line 104-105 re-raised as RuntimeError, line 68-69 return False)
AI_BackendRaises(t) ==
    /\ ai_thread[t].pc = "backend"
    /\ lock_holder' = AfterRaise(lock_holder, ai_thread[t].lock)
    /\ ai_thread' = [ai_thread EXCEPT ![t].pc = "idle", ![t].res = "failed"]
    /\ UNCHANGED <<mainVars, msVars, mcVars, client_locks, client_locks_lock, nlocks>>


NextAI ==
    \/ \E t \in Threads, key \in ApiKeys : AI_Call(t, key)
    \/ \E t \in Threads : AI_RegistryAcquire(t)
    \/ \E t \in Threads : AI_RegistryLookup(t)
    \/ \E t \in Threads : AI_RegistryCreate(t)
    \/ \E t \in Threads : AI_RegistryReturn(t)
    \/ \E t \in Threads : AI_KeyAcquire(t)
    \/ \E t \in Threads : AI_BackendReturns(t)
    \/ \E t \in Threads : AI_BackendRaises(t)

\* -------------------------------------------------- two sessions at once
\* Two QuickBattleRequest objects created by two quick-battle commands,
\* with the objects they hold: each __init__ evaluates `[owner]`, each
\* FighterCreator.__init__ evaluates `{}`, and FighterCreator.participants
\* is the participants list of its session.  One step is one operation of
\* one session.
Sessions == {"A", "B"}

\* every list display yielding the same object
NewList_Shared(n) == 1

\* the identity of the object a list display `[owner]` creates, n list
\* objects existing
NewList(n) == n + 1

\* the identity of the object a dict display `{}` creates
NewDict(n) == n + 1

\* QuickBattleRequest.__init__ of session A (owner 1), then of session B
\* (owner 2)
MSInit ==
    /\ ms_lists = [[i \in 1..2 |-> <<>>] EXCEPT
                      ![NewList(0)] = <<1>>,
                      ![NewList(1)] = <<2>>]
    /\ session = [x \in Sessions |->
                     [participants |-> IF x = "A" THEN NewList(0)
                                       ELSE NewList(1),
                      timeelapsed |-> 0, running |-> TRUE,
                      state |-> "forming", submissions |-> 0]]
    /\ ms_dicts = [i \in 1..MaxDicts |-> {}]
    /\ ms_ndicts = 0
    /\ actor = "-"

Roster(x) == ms_lists[session[x].participants]

Ledger(x) ==
    IF session[x].submissions = 0 THEN {} ELSE ms_dicts[session[x].submissions]

\* __tick__ of session x below the timeout
MS_Tick(x) ==
    /\ session[x].running
    /\ session[x].timeelapsed + 1 < MaxTimeout
    /\ session' = [session EXCEPT ![x].timeelapsed = @ + 1]
    /\ actor' = x
    /\ UNCHANGED <<mainVars, aiVars, mcVars, ms_lists, ms_dicts, ms_ndicts>>

\* __tick__ of session x reaching the timeout, __timeout__ and the start
\* of _async_timeout
MS_Timeout(x) ==
    /\ session[x].running
    /\ session[x].timeelapsed + 1 >= MaxTimeout
    /\ ms_ndicts < MaxDicts
    /\ ms_ndicts' = ms_ndicts + 1
    /\ ms_dicts' = [ms_dicts EXCEPT ![NewDict(ms_ndicts)] = {}]
    /\ session' = [session EXCEPT ![x].timeelapsed = @ + 1,
                                  ![x].running = FALSE,
                                  ![x].state = "collecting",
                                  ![x].submissions = NewDict(ms_ndicts)]
    /\ actor' = x
    /\ UNCHANGED <<mainVars, aiVars, mcVars, ms_lists>>

\* JoinButton.callback of session x
MS_Join(x, u) ==
    /\ session[x].state = "forming"
    /\ u \notin Range(Roster(x))
    /\ ms_lists' = [ms_lists EXCEPT ![session[x].participants] = Append(@, u)]
    /\ actor' = x
    /\ UNCHANGED <<mainVars, aiVars, mcVars, ms_dicts, ms_ndicts, session>>

\* LeaveButton.callback of session x
MS_Leave(x, u) ==
    /\ session[x].state = "forming"
    /\ u \in Range(Roster(x))
    /\ ms_lists' = [ms_lists EXCEPT ![session[x].participants] =
                                       RemoveFirst(@, u)]
    /\ actor' = x
    /\ UNCHANGED <<mainVars, aiVars, mcVars, ms_dicts, ms_ndicts, session>>

\* StartButton.callback of session x: _start_battle and the start of
\* _async_timeout (line 815: FighterCreator(channel, self.participants,
\* owner) with its own submissions dict)
MS_Start(x) ==
    /\ session[x].state = "forming"
    /\ ms_ndicts < MaxDicts
    /\ ms_ndicts' = ms_ndicts + 1
    /\ ms_dicts' = [ms_dicts EXCEPT ![NewDict(ms_ndicts)] = {}]
    /\ session' = [session EXCEPT ![x].running = FALSE,
                                  ![x].state = "collecting",
                                  ![x].submissions = NewDict(ms_ndicts)]
    /\ actor' = x
    /\ UNCHANGED <<mainVars, aiVars, mcVars, ms_lists>>

\* AbortButton.callback of session x: _abort_battle
MS_Abort(x) ==
    /\ session[x].state = "forming"
    /\ session' = [session EXCEPT ![x].running = FALSE, ![x].state = "aborted"]
    /\ actor' = x
    /\ UNCHANGED <<mainVars, aiVars, mcVars, ms_lists, ms_dicts, ms_ndicts>>

\* FighterModal.on_submit of session x: the entry, and completion when
\* nobody remains
MS_Submit(x, u) ==
    /\ session[x].state = "collecting"
    /\ u \in Range(Roster(x))
    /\ u \notin Ledger(x)
    /\ ms_dicts' = [ms_dicts EXCEPT ![session[x].submissions] = @ \cup {u}]
    /\ session' = [session EXCEPT ![x].state =
                       IF Range(Roster(x)) \subseteq Ledger(x) \cup {u}
                       THEN "done" ELSE @]
    /\ actor' = x
    /\ UNCHANGED <<mainVars, aiVars, mcVars, ms_lists, ms_ndicts>>

\* CreatorAbortButton.callback of session x: FighterCreator._abort
MS_PhaseAbort(x) ==
    /\ session[x].state = "collecting"
    /\ session' = [session EXCEPT ![x].state = "aborted"]
    /\ actor' = x
    /\ UNCHANGED <<mainVars, aiVars, mcVars, ms_lists, ms_dicts, ms_ndicts>>


NextSessions ==
    \/ \E x \in Sessions : MS_Tick(x)
    \/ \E x \in Sessions : MS_Timeout(x)
    \/ \E x \in Sessions, u \in Users : MS_Join(x, u)
    \/ \E x \in Sessions, u \in Users : MS_Leave(x, u)
    \/ \E x \in Sessions : MS_Start(x)
    \/ \E x \in Sessions : MS_Abort(x)
    \/ \E x \in Sessions, u \in Users : MS_Submit(x, u)
    \/ \E x \in Sessions : MS_PhaseAbort(x)

\* ------------------------------------------------- the metrics collector
\* src/web/metrics.py: the collector thread runs _collection_loop, another
\* thread calls stop().  One step is one statement on the shared fields;
\* the database is enabled.
Flushers == {"col", "stop"}

Rows == 1..MaxRows

\* MetricsCollector.__init__: the collector thread is started
MCInit ==
    /\ mc_running = TRUE
    /\ mc_pending = <<>>
    /\ mc_db = [row \in Rows |-> 0]
    /\ mc_last_flush = 0
    /\ mc_now = 0
    /\ mc_stored = 0
    /\ mc_flusher = [f \in Flushers |->
                        [pc |-> IF f = "col" THEN "test" ELSE "idle",
                         rows |-> <<>>, ret |-> "-"]]
    /\ mc_before = 0

\* time passes
MC_TimePasses ==
    /\ mc_now < MaxNow
    /\ mc_now' = mc_now + 1
    /\ UNCHANGED <<mainVars, aiVars, msVars, mc_running, mc_pending, mc_db,
                   mc_last_flush, mc_stored, mc_flusher, mc_before>>

\* _collection_loop line 213: while self._collector_running:
MC_LoopTest ==
    /\ mc_flusher["col"].pc = "test"
    /\ mc_running => mc_stored < MaxRows
    /\ mc_flusher' = [mc_flusher EXCEPT
           !["col"].pc = IF mc_running THEN "store" ELSE "check",
           !["col"].ret = IF mc_running THEN "test" ELSE "ended"]
    /\ UNCHANGED <<mainVars, aiVars, msVars, mc_running, mc_pending, mc_db,
                   mc_last_flush, mc_now, mc_stored, mc_before>>

\* line 215-219, _store_metrics line 155-158: the row is appended to
\* _pending_rows; then _maybe_flush_to_db is entered (line 220)
MC_Store ==
    /\ mc_flusher["col"].pc = "store"
    /\ mc_stored' = mc_stored + 1
    /\ mc_pending' = Append(mc_pending, mc_stored + 1)
    /\ mc_flusher' = [mc_flusher EXCEPT !["col"].pc = "check"]
    /\ UNCHANGED <<mainVars, aiVars, msVars, mc_running, mc_db,
                   mc_last_flush, mc_now, mc_before>>

\* _maybe_flush_to_db line 164-166: the flush is made only when the
\* interval has passed since the last one
FlushDue(now, last) == ~(now - last < FlushInterval)

\* _maybe_flush_to_db line 161-166 run by f
MC_FlushCheck(f) ==
    /\ mc_flusher[f].pc = "check"
    /\ mc_flusher' = [mc_flusher EXCEPT
           ![f].pc = IF FlushDue(mc_now, mc_last_flush) THEN "copy"
                     ELSE mc_flusher[f].ret]
    /\ UNCHANGED <<mainVars, aiVars, msVars, mc_running, mc_pending, mc_db,
                   mc_last_flush, mc_now, mc_stored, mc_before>>

\* line 167: rows = self._pending_rows[:]
MC_FlushCopy(f) ==
    /\ mc_flusher[f].pc = "copy"
    /\ mc_flusher' = [mc_flusher EXCEPT ![f].rows = mc_pending,
                                        ![f].pc = "clear"]
    /\ UNCHANGED <<mainVars, aiVars, msVars, mc_running, mc_pending, mc_db,
                   mc_last_flush, mc_now, mc_stored, mc_before>>

\* line 168-169: self._pending_rows.clear(); self._last_flush_time = now
MC_FlushClear(f) ==
    /\ mc_flusher[f].pc = "clear"
    /\ mc_pending' = <<>>
    /\ mc_last_flush' = mc_now
    /\ mc_flusher' = [mc_flusher EXCEPT ![f].pc = "insert"]
    /\ UNCHANGED <<mainVars, aiVars, msVars, mc_running, mc_db, mc_now,
                   mc_stored, mc_before>>

\* line 170-171: if rows: self._db.insert_batch(rows)
MC_FlushInsert(f) ==
    /\ mc_flusher[f].pc = "insert"
    /\ mc_db' = [row \in Rows |->
                    mc_db[row] + Cardinality({i \in DOMAIN mc_flusher[f].rows :
                                                 mc_flusher[f].rows[i] = row})]
    /\ mc_flusher' = [mc_flusher EXCEPT ![f].rows = <<>>,
                                        ![f].pc = mc_flusher[f].ret]
    /\ UNCHANGED <<mainVars, aiVars, msVars, mc_running, mc_pending,
                   mc_last_flush, mc_now, mc_stored, mc_before>>

\* stop() line 240: self._collector_running = False
MC_Stop ==
    /\ mc_flusher["stop"].pc = "idle"
    /\ mc_running' = FALSE
    /\ mc_before' = mc_stored
    /\ mc_flusher' = [mc_flusher EXCEPT !["stop"].pc = "join"]
    /\ UNCHANGED <<mainVars, aiVars, msVars, mc_pending, mc_db,
                   mc_last_flush, mc_now, mc_stored>>

\* line 241-243: join(timeout=2.0) returns because the collector thread
\* has ended, or because the two seconds have passed; then
\* _maybe_flush_to_db is entered
MC_StopJoin ==
    \E timed_out \in BOOLEAN :
        /\ mc_flusher["stop"].pc = "join"
        /\ timed_out \/ mc_flusher["col"].pc = "ended"
        /\ mc_flusher' = [mc_flusher EXCEPT !["stop"].pc = "check",
                                            !["stop"].ret = "returned"]
        /\ UNCHANGED <<mainVars, aiVars, msVars, mc_running, mc_pending,
                       mc_db, mc_last_flush, mc_now, mc_stored, mc_before>>


NextMetrics ==
    \/ MC_TimePasses
    \/ MC_LoopTest
    \/ MC_Store
    \/ \E f \in Flushers : MC_FlushCheck(f)
    \/ \E f \in Flushers : MC_FlushCopy(f)
    \/ \E f \in Flushers : MC_FlushClear(f)
    \/ \E f \in Flushers : MC_FlushInsert(f)
    \/ MC_Stop
    \/ MC_StopJoin

\* the state outside the session after start-up
SideInit == AIInit /\ MSInit /\ MCInit

\* ------------------------------------------------------------------ Spec
LoopQueued ==
    \/ Async_initialize
    \/ Async_update_message
    \/ Async_timeout_complete

LoopRoster ==
    \/ JoinButton_callback
    \/ LeaveButton_callback
    \/ Roster_update_async

LoopOwner ==
    \/ OwnerButton_callback
    \/ Stop_ClearFlag
    \/ Stop_CheckTimer
    \/ Stop_Cancel
    \/ Stop_DropHandle
    \/ Start_ClearUI
    \/ Abort_SetEmbed
    \/ Abort_ClearUI

LoopPhase ==
    \/ Creator_button_callback
    \/ Modal_on_submit
    \/ Modal_after_reply
    \/ CreatorAbortButton_callback
    \/ Creator_abort
    \/ Creator_abort_set

LoopSequencer ==
    \/ Sequencer_begin
    \/ Creator_sent
    \/ Creator_woken
    \/ Creator_returns
    \/ Environment_combined
    \/ Environment_posted
    \/ Battle_evaluate
    \/ Battle_save_and_send
    \/ Sequencer_returns

EventLoop == LoopQueued \/ LoopRoster \/ LoopOwner \/ LoopPhase \/ LoopSequencer

UserInput ==
    \/ ClickRoster
    \/ ClickPrompt

Next == TimerThread \/ EventLoop \/ UserInput

\* the command's timeout is at least 30: some tick does not time out
Init == InitWith({MaxTimeout}) /\ SideInit

Spec == Init /\ [][Next]_vars

\* The countdown when the owner neither force-starts nor aborts the
\* session, for every timeout 1..MaxTimeout.
InitCountdown == InitWith(1..MaxTimeout) /\ SideInit

NextCountdown ==
    \/ TimerThread
    \/ LoopQueued
    \/ LoopRoster
    \/ LoopPhase
    \/ LoopSequencer
    \/ ClickJoinLeave
    \/ ClickPrompt

SpecCountdown == InitCountdown /\ [][NextCountdown]_vars

\* The session for every timeout 1..MaxTimeout.
SpecTimeouts == InitCountdown /\ [][Next]_vars

\* The session when a generation call, the save of the result, the send of
\* a prompt or the edit of a prompt may fail.
Failures ==
    \/ Battle_evaluate_raises
    \/ Battle_save_raises
    \/ Environment_combine_raises
    \/ Creator_send_fails
    \/ Modal_rerender_fails

NextFaults == Next \/ Failures

SpecFaults == Init /\ [][NextFaults]_vars

\* Scenario A: generic environment; every other user joins during Forming,
\* then the owner presses Start once, before the countdown expires; every
\* roster member opens the modal of each prompt until their submission is
\* stored.  Nobody leaves and nobody presses Abort.
StartPressed ==
    \/ ~timer_running
    \/ Click("start", Owner, 0, "-") \in inflight
    \/ \E t \in BagToSet(tasks) : t.k = "start"
    \/ cur # NoTask

ScenarioJoin ==
    \E u \in Users \ {Owner} :
        /\ shown.view = "full"
        /\ ~StartPressed
        /\ ~InRoster(u)
        /\ Cardinality(inflight) < MaxInflight
        /\ inflight' = inflight \cup {Click("join", u, 0, "-")}
        /\ UNCHANGED <<cfgVars, timerVars, participants, viewVars, tasks, cur,
                       modals, seqVars, sessionAborted>>
        /\ reply' = NoReply

ScenarioStart ==
    /\ shown.view = "full"
    /\ ~StartPressed
    /\ Range(participants) = Users
    /\ inflight = {}
    /\ inflight' = {Click("start", Owner, 0, "-")}
    /\ UNCHANGED <<cfgVars, timerVars, participants, viewVars, tasks, cur,
                   modals, seqVars, sessionAborted>>
    /\ reply' = NoReply

ScenarioOpen ==
    \E u \in Users, r \in Runs, s \in Stages :
        /\ phase[r][s].shown = "prompt_buttons"
        /\ phase[r][s].message
        /\ InAudience(u, r, s)
        /\ ~HasSubmitted(u, r, s)
        /\ [u |-> u, r |-> r, s |-> s] \notin modals
        /\ Cardinality(inflight) < MaxInflight
        /\ inflight' = inflight \cup {Click("open", u, r, s)}
        /\ UNCHANGED <<cfgVars, timerVars, participants, viewVars, tasks, cur,
                       modals, seqVars, sessionAborted>>
        /\ reply' = NoReply

\* a submit of the scenario carries data and closes its modal
ScenarioSubmit ==
    /\ Modal_on_submit
    /\ reply'.msg = "submitted"
    /\ modals' # modals

\* the countdown has not expired when the owner presses Start: a Timer
\* expires only while the tick it starts stays below the timeout
ScenarioTimerFires == TimerFires /\ timeelapsed + 1 < timeout

InitScenarioA == InitWith({MaxTimeout}) /\ ~custom_environment /\ SideInit

\* The calls of the text-generation backend made by the event-loop thread
\* and the executor threads, the session being at rest.
InitAI == InitWith({MaxTimeout}) /\ ~custom_environment /\ SideInit

SpecAI == InitAI /\ [][NextAI]_vars

\* Two sessions side by side, every operation of one of them a step.
SpecSessions == InitAI /\ [][NextSessions]_vars

\* The metrics collector from its construction to the return of stop().
SpecMetrics == InitAI /\ [][NextMetrics]_vars

NextScenarioA ==
    \/ ScenarioTimerFires
    \/ Tick_CheckRunning
    \/ Tick_Increment
    \/ Tick_Recheck
    \/ Tick_Rearm
    \/ Tick_Update
    \/ Async_initialize
    \/ Async_update_message
    \/ JoinButton_callback
    \/ Roster_update_async
    \/ OwnerButton_callback
    \/ Stop_ClearFlag
    \/ Stop_CheckTimer
    \/ Stop_Cancel
    \/ Stop_DropHandle
    \/ Start_ClearUI
    \/ Creator_button_callback
    \/ ScenarioSubmit
    \/ Modal_after_reply
    \/ Sequencer_begin
    \/ Creator_sent
    \/ Creator_woken
    \/ Creator_returns
    \/ Battle_evaluate
    \/ Battle_save_and_send
    \/ Sequencer_returns
    \/ ScenarioJoin
    \/ ScenarioStart
    \/ ScenarioOpen

SpecScenarioA == InitScenarioA /\ [][NextScenarioA]_vars

\* ---------------------------------------------------------------- claims
Created(r, s) == phase[r][s].view # "unset"

\* the session is in Forming until _timer_running is cleared by
\* __timeout__, _start_battle or _abort_battle
Forming == timer_running

\* C1: in every phase each participant's entry is written at most once,
\* and a submit by a participant who already has an entry is rejected (as a
\* duplicate while the participant is in the audience) and leaves every
\* ledger unchanged.
C1_AtMostOneSubmission ==
    /\ [](\A r \in Runs, s \in Stages, u \in Users :
              phase[r][s].submissions[u] <= 1)
    /\ [][(reply'.k = "submit"
            /\ HasSubmitted(reply'.u, reply'.r, reply'.s))
          => /\ phase' = phase
             /\ reply'.msg = IF InAudience(reply'.u, reply'.r, reply'.s)
                             THEN "already_submitted"
                             ELSE "not_participant"]_vars

\* C1 witness: a participant with an entry submitted again and got the
\* duplicate answer
C1_Witness ==
    /\ reply.k = "submit"
    /\ reply.msg = "already_submitted"
    /\ phase[reply.r][reply.s].submissions[reply.u] = 1

\* C2: no phase ends both ways: a phase whose waiter returned the ledger
\* is never marked aborted.
C2_OneTerminalState ==
    \A r \in Runs, s \in Stages :
        ~(phase[r][s].outcome = "ledger" /\ phase[r][s].aborted)

\* C3: when the waiter of a phase returns the ledger, the ledger keys are
\* the phase's roster.
C3_CompletedOnlyWhenCovered ==
    [][\A r \in Runs, s \in Stages :
          (phase[r][s].outcome = "none" /\ phase'[r][s].outcome = "ledger")
          => Keys(r, s)' = Audience(r, s)']_vars

\* the program cannot take a step until a user presses something
Idle ==
    /\ cur = NoTask
    /\ inflight = {}
    /\ tick_pc = "idle"
    /\ ~timer_alive
    /\ \A t \in BagToSet(tasks) :
           t.pc = "wait" /\ ~phase[t.r][t.s].completed

\* the waiter of phase (r, s) is suspended in completed.wait()
Waiting(r, s) ==
    \E t \in BagToSet(tasks) : t.r = r /\ t.s = s /\ t.pc = "wait"

\* C4: a phase whose roster is fully covered does not stay open: the
\* program never comes to rest with a waiter suspended on a phase whose
\* ledger keys equal its roster.
C4_CoveredPhaseCompletes ==
    \A r \in Runs, s \in Stages :
        ~(Idle /\ Waiting(r, s) /\ Keys(r, s) = Audience(r, s))

\* C5: once a phase has signaled completion or abort its ledger does not
\* change any more.
C5_ClosedPhaseRejects ==
    [][\A r \in Runs, s \in Stages :
          (phase[r][s].completed \/ phase[r][s].aborted)
          => phase'[r][s].submissions = phase[r][s].submissions]_vars

\* C6: _async_timeout is executed at most once per session.
C6_SequencerRunsOnce == nruns <= 1

\* C7: after the session has left Forming no join or leave changes the
\* roster.
C7_RosterFrozenAfterForming ==
    [][~Forming => participants' = participants]_vars

\* C8: with no force-start and no abort, the timeout hand-off is scheduled
\* and the phase sequence begins only when elapsed >= timeout.
C8_NotBeforeTimeout ==
    (\/ nruns > 0
     \/ \E t \in BagToSet(tasks) : t.k = "tmo"
     \/ tick_pc \in {"to_flag", "to_chk", "to_cancel", "to_drop", "to_handoff"})
    => timeelapsed >= timeout

\* C8 witness: the sequence was started by the countdown of the longest
\* timeout
C8_Witness ==
    /\ timeout = MaxTimeout
    /\ nruns = 1
    /\ seqlog[1].origin = "tmo"

\* C9: after the owner aborted the session no phase is created and no
\* generation call is issued.
C9_NothingAfterAbort ==
    [][sessionAborted =>
          /\ \A r \in Runs, s \in Stages : Created(r, s)' => Created(r, s)
          /\ \A r \in Runs : /\ seqlog'[r].gen = seqlog[r].gen
                             /\ seqlog'[r].combine = seqlog[r].combine]_vars

C11_NonParticipantRejected ==
    [][(reply'.k \in {"submit", "open"}
          /\ reply'.u \notin Audience(reply'.r, reply'.s))
       => /\ reply'.msg = "not_participant"
          /\ phase' = phase
          /\ modals' \subseteq modals]_vars

\* C11 witness: a user outside the roster pressed the submit button of an
\* open phase and was refused
C11_Witness ==
    /\ reply.k = "open"
    /\ reply.msg = "not_participant"
    /\ reply.u \notin Audience(reply.r, reply.s)
    /\ ~phase[reply.r][reply.s].completed
    /\ ~phase[reply.r][reply.s].aborted
    /\ Waiting(reply.r, reply.s)

\* the combatant+strategy entries of run r: the Fighter objects of the
\* FighterCreator's ledger that carry a strategy
Entries(r) ==
    {u \in Users : /\ phase[r]["fig"].submissions[u] > 0
                   /\ phase[r]["fig"].strategy[u] > 0}

\* nothing is pending: no coroutine, no click, no tick
Quiescent ==
    /\ tasks = EmptyBag
    /\ cur = NoTask
    /\ inflight = {}
    /\ tick_pc = "idle"

\* C12 as stated: in scenario A (the owner and two users who joined) the
\* generation step is reached with exactly 2 combatant+strategy entries.
C12_ScenarioA_TwoEntries ==
    \A r \in Runs : seqlog[r].gen > 0 => Cardinality(Entries(r)) = 2

\* C12 amended: in scenario A the sequencer runs once and issues the
\* generation call at most once, with exactly one combatant+strategy entry
\* per roster member (the owner and every user who joined), and when every
\* roster member has submitted a strategy and nothing is pending the
\* generation call has been issued, saved and broadcast once.
C12_ScenarioA ==
    /\ nruns <= 1
    /\ \A r \in Runs :
        /\ seqlog[r].gen <= 1
        /\ seqlog[r].gen = 1 =>
              /\ Entries(r) = Range(participants)
              /\ Range(participants) = Users
              /\ \A u \in Users : /\ phase[r]["fig"].submissions[u] = 1
                                  /\ phase[r]["fig"].strategy[u] = 1
    /\ (Quiescent /\ \A u \in Users : phase[1]["str"].submissions[u] > 0)
         => /\ seqlog[1].gen = 1
            /\ seqlog[1].saved = 1
            /\ seqlog[1].narrated = 1
            /\ seqlog[1].ended = "done"

\* C12 witness: the run started by the owner's Start press has ended with
\* its generation call issued
C12_Witness ==
    /\ seqlog[1].origin = "start"
    /\ seqlog[1].gen = 1
    /\ seqlog[1].ended = "done"
    /\ Cardinality(Entries(1)) = NUsers
    /\ Quiescent

\* C13: when the generation call of a run raised, that run has broadcast
\* no narrative, has persisted nothing, and an error message was sent to
\* the channel.
C13_GenerationFailureSurfaced ==
    \A r \in Runs :
        (seqlog[r].ended = "failed" /\ seqlog[r].got = 0)
        => /\ seqlog[r].narrated = 0
           /\ seqlog[r].saved = 0
           /\ seqlog[r].error > 0

\* C14: when the generation call of a run returned a narrative and the
\* run has ended, the narrative was broadcast.
C14_SaveFailureDoesNotBlock ==
    \A r \in Runs :
        (seqlog[r].ended # "no" /\ seqlog[r].got > 0)
        => seqlog[r].narrated > 0

\* C15: the owner's session abort forces an active collection phase to
\* Aborted: when _abort_battle has run to its end, every phase whose waiter
\* is suspended at that moment is aborted.
C15_AbortReachesActivePhase ==
    [][(cur.pc = "ab_edit" /\ cur' = NoTask)
       => \A r \in Runs, s \in Stages :
              Waiting(r, s) => phase'[r][s].aborted]_vars

\* the stages that follow stage s in _async_timeout
Later(s) ==
    IF s = "env" THEN {"fig", "str"}
    ELSE IF s = "fig" THEN {"str"}
    ELSE {}

\* C16: once a phase of a run is aborted, that run creates no later phase,
\* issues no generation call, persists nothing and broadcasts nothing.
C16_AbortShortCircuits ==
    [][\A r \in Runs, s \in Stages :
          phase[r][s].aborted
          => /\ \A s2 \in Later(s) : Created(r, s2)' => Created(r, s2)
             /\ seqlog'[r].combine = seqlog[r].combine
             /\ seqlog'[r].gen = seqlog[r].gen
             /\ seqlog'[r].saved = seqlog[r].saved
             /\ seqlog'[r].narrated = seqlog[r].narrated]_vars

\* C17: in every run the Environment phase exists only in custom mode, the
\* Combatant phase is created only after the Environment phase (custom
\* mode) returned its ledger and the combined environment was requested,
\* the Strategy phase only after the Combatant phase returned its ledger,
\* and the final generation call is issued only after the Strategy phase
\* returned its ledger.
C17_FixedOrder ==
    \A r \in Runs :
        /\ Created(r, "env") => custom_environment
        /\ seqlog[r].combine > 0 => phase[r]["env"].outcome = "ledger"
        /\ (Created(r, "fig") /\ custom_environment)
              => /\ phase[r]["env"].outcome = "ledger"
                 /\ seqlog[r].combine = 1
        /\ Created(r, "str") => phase[r]["fig"].outcome = "ledger"
        /\ seqlog[r].gen > 0 => phase[r]["str"].outcome = "ledger"

\* C17 witness: a run in custom mode went through the three phases and
\* issued the generation call
C17_Witness ==
    /\ custom_environment
    /\ seqlog[1].combine = 1
    /\ seqlog[1].gen = 1
    /\ phase[1]["env"].outcome = "ledger"
    /\ phase[1]["str"].outcome = "ledger"

\* a step of the timer thread: the thread moves inside __tick__ or
\* __timeout__
ThreadStep == tick_pc' # tick_pc

\* the thread is inside __tick__ (line 680-690), not inside __timeout__
InTick == tick_pc \in {"check", "incr", "recheck", "rearm", "update"}

\* C18: no step of the timer thread writes the elapsed counter, the
\* running flag, the timer handle (a Timer that expires or is cancelled
\* becomes stale without the attribute being written) or the embed of the
\* roster message.
C18_ThreadWritesNothing ==
    [][ThreadStep
       => /\ UNCHANGED <<timeelapsed, timer_running, embed>>
          /\ timer' # timer => (timer' = "stale" /\ timer # "none")]_vars

\* C19: once the event loop has cleared the running flag, a tick in
\* flight does nothing: it does not increment elapsed, does not enter
\* __timeout__, starts no Timer and hands nothing to the loop.
C19_StoppedTickerIsInert ==
    [][(ThreadStep /\ InTick /\ ~timer_running)
       => /\ timeelapsed' = timeelapsed
          /\ tick_pc' = "idle"
          /\ timer_alive' = timer_alive
          /\ timer' = timer
          /\ tasks' = tasks]_vars

\* C20: the stop sequence never fails: neither the event loop nor the
\* timer thread reaches `self.timer.cancel()` with self.timer being None.
C20_StopNeverFails ==
    /\ ~(cur.pc = "stop_cancel" /\ timer = "none")
    /\ ~(tick_pc = "to_cancel" /\ timer = "none")

\* C21: the roster always contains the owner (and so is never empty),
\* whatever join and leave requests were made.
C21_OwnerInRoster ==
    /\ participants # <<>>
    /\ Owner \in Range(participants)

\* C29: once the session has left Forming through force-start or countdown
\* expiry and the roster message shows the empty view, no later edit puts
\* the four buttons back.
C29_ControlsStayCleared ==
    [][(~Forming /\ ~sessionAborted /\ shown.view = "empty")
       => shown'.view = "empty"]_vars

\* the phases whose waiter is suspended in completed.wait()
OpenPhases == {p \in Runs \X Stages : Waiting(p[1], p[2])}

\* C30: at most one collection phase of the session is open at a time.
C30_OneOpenPhase == Cardinality(OpenPhases) <= 1

\* C22: when the prompt of a phase cannot be sent, the phase ends aborted
\* with an empty ledger, and the run of the sequence that created it ends
\* there: it creates no later phase, issues no generation call, saves
\* nothing and broadcasts nothing.
C22_SendFailureAborts ==
    \A r \in Runs, s \in Stages :
        (phase[r][s].completed /\ ~phase[r][s].message)
        => /\ phase[r][s].aborted
           /\ phase[r][s].outcome = "aborted"
           /\ Keys(r, s) = {}
           /\ seqlog[r].ended = "aborted"
           /\ \A s2 \in Later(s) : ~Created(r, s2)
           /\ s = "env" => seqlog[r].combine = 0
           /\ seqlog[r].gen = 0
           /\ seqlog[r].saved = 0
           /\ seqlog[r].narrated = 0

\* C22 witness: the prompt of the Strategy phase could not be sent after
\* the Combatant phase had returned its ledger
C22_Witness ==
    /\ phase[1]["str"].aborted
    /\ ~phase[1]["str"].message
    /\ phase[1]["fig"].outcome = "ledger"

\* the step resumes on_submit after the reply of the accepted submission
\* of task t
Resumes(t) ==
    /\ t.k = "submit"
    /\ t.pc = "reply_ok"
    /\ t \in BagToSet(tasks)
    /\ tasks' = tasks (-) One(t)

\* C23: a failed re-render after an accepted submission leaves every
\* ledger as it is, the participant still counts as having submitted, and
\* the submission after which nobody remains still signals completion.
C23_FailedRerenderKeepsEntry ==
    /\ [][reply'.msg = "edit_failed"
          => /\ \A r \in Runs, s \in Stages :
                    phase'[r][s].submissions = phase[r][s].submissions
             /\ phase'[reply'.r][reply'.s].submissions[reply'.u] > 0
             /\ ~phase'[reply'.r][reply'.s].aborted
                    \/ phase[reply'.r][reply'.s].aborted]_vars
    /\ [][\A t \in BagToSet(tasks) :
              (Resumes(t) /\ Remaining(t.r, t.s) = {})
              => phase'[t.r][t.s].completed]_vars

\* C23 witness: the re-render after an accepted submission failed while
\* other participants remain
C23_Witness ==
    /\ reply.msg = "edit_failed"
    /\ HasSubmitted(reply.u, reply.r, reply.s)
    /\ Remaining(reply.r, reply.s) # {}
    /\ ~phase[reply.r][reply.s].completed

\* C28: every run that ended with an exception has sent an error message
\* to the channel, whichever step raised and whoever started the run.
C28_EveryFaultSurfaced ==
    \A r \in Runs : seqlog[r].ended = "failed" => seqlog[r].error > 0

\* C31: once the Combatant phase has returned its ledger, no step changes
\* the keys of that ledger or a value stored in it.
C31_CompletedLedgerReadOnly ==
    [][\A r \in Runs :
          phase[r]["fig"].outcome = "ledger"
          => /\ phase'[r]["fig"].submissions = phase[r]["fig"].submissions
             /\ phase'[r]["fig"].strategy = phase[r]["fig"].strategy]_vars

\* C32: when the waiter of a phase returns the ledger, every accepted
\* submission included the completing one, the prompt lists the
\* participants that remain at that moment.
C32_RerenderAfterAccepted ==
    [][\A r \in Runs, s \in Stages :
          (phase[r][s].outcome = "none" /\ phase'[r][s].outcome = "ledger")
          => phase'[r][s].listed = Remaining(r, s)']_vars

\* C34: when the final generation call is issued, the participants with
\* a combatant+strategy entry are exactly the roster members.
C34_EntriesEqualRoster ==
    [][\A r \in Runs :
          seqlog'[r].gen > seqlog[r].gen
          => Entries(r)' = Range(participants)']_vars

\* C35: 0 <= elapsed <= timeout in every state, and elapsed never
\* decreases.
C35_ElapsedBounded ==
    /\ [](0 <= timeelapsed /\ timeelapsed <= timeout)
    /\ [][timeelapsed' >= timeelapsed]_vars

\* C35 witness: the countdown of the shortest timeout ran out while a
\* force-start was being processed
C35_Witness ==
    /\ timeout = 1
    /\ timeelapsed = timeout
    /\ tick_pc = "to_flag"
    /\ cur.k = "start"

\* the executions of _async_timeout_complete handed to the loop so far
HandOffs ==
    Cardinality({r \in Runs : seqlog[r].origin = "tmo"})
    + BagCardinality([t \in {x \in BagToSet(tasks) :
                                 x.k = "tmo" /\ x.r = 0} |-> CopiesIn(t, tasks)])

\* C36: with no force-start and no abort, a Timer is pending or a tick is
\* under way only while elapsed < timeout (every expiry increments
\* elapsed: the chain fires exactly timeout times), the hand-off of
\* _async_timeout_complete is made at the tick that reaches the timeout and
\* only once, and after that tick no Timer is pending and the ticker is
\* stopped.
C36_CountdownTerminates ==
    /\ []((timer_alive \/ tick_pc \in {"check", "incr"})
            => (timeelapsed < timeout /\ timer_running))
    /\ [](timeelapsed <= timeout)
    /\ [](HandOffs <= 1)
    /\ [][HandOffs' > HandOffs
          => (timeelapsed = timeout /\ tick_pc = "to_handoff")]_vars
    /\ []((timeelapsed = timeout /\ tick_pc = "idle")
            => /\ ~timer_alive
               /\ ~timer_running
               /\ timer = "none"
               /\ HandOffs = 1)

\* C36 witness: the countdown of the longest timeout has run out and the
\* sequence it started has begun
C36_Witness ==
    /\ timeout = MaxTimeout
    /\ timeelapsed = timeout
    /\ tick_pc = "idle"
    /\ ~timer_alive
    /\ seqlog[1].origin = "tmo"

\* C37: the roster holds no identity twice; a join by a roster member and
\* a leave by a user outside the roster are refused and leave the roster
\* as it is.
C37_NoDuplicates ==
    /\ [](\A i, j \in DOMAIN participants :
              participants[i] = participants[j] => i = j)
    /\ [][\A c \in inflight :
              (c \notin inflight' /\ c.k = "join" /\ InRoster(c.u))
              => /\ participants' = participants
                 /\ reply'.msg = "already_joined"]_vars
    /\ [][\A c \in inflight :
              (c \notin inflight' /\ c.k = "leave" /\ ~InRoster(c.u))
              => /\ participants' = participants
                 /\ reply'.msg = "not_joined"]_vars

\* C37 witness: a roster member other than the owner pressed Join again
\* and was refused
C37_Witness ==
    /\ reply.k = "join"
    /\ reply.msg = "already_joined"
    /\ reply.u # Owner
    /\ InRoster(reply.u)

\* C38: a submission with a field that is empty after trimming is
\* rejected, as empty input when the user is a participant without an
\* entry; it writes no ledger, starts no continuation (no re-render, no
\* completion), and the participant may open the modal again.
C38_EmptyInputRejected ==
    [][(reply'.k = "submit" /\ reply'.blank)
       => /\ reply'.msg \in {"not_participant", "already_submitted",
                             "empty_input"}
          /\ phase' = phase
          /\ tasks' = tasks
          /\ (InAudience(reply'.u, reply'.r, reply'.s)
                /\ ~HasSubmitted(reply'.u, reply'.r, reply'.s))
             => /\ reply'.msg = "empty_input"
                /\ participants' = participants
                /\ OpenOutcome(reply'.u, reply'.r, reply'.s) = "modal"]_vars

\* C38 witness: a participant without an entry submitted whitespace and
\* got the empty-input answer
C38_Witness ==
    /\ reply.k = "submit"
    /\ reply.blank
    /\ reply.msg = "empty_input"
    /\ InAudience(reply.u, reply.r, reply.s)
    /\ ~HasSubmitted(reply.u, reply.r, reply.s)

\* thread t is inside the backend call (generate_content) for api key k
InBackend(t, k) == ai_thread[t].pc = "backend" /\ ai_thread[t].key = k

\* C24: at most one backend call is in progress per api key, the
\* validation call of the event-loop thread included.
C24_OneCallPerCredential ==
    \A t1 \in Threads, t2 \in Threads, k \in ApiKeys :
        (InBackend(t1, k) /\ InBackend(t2, k)) => t1 = t2

\* C24 witness: the validation call is in progress for a key and a
\* generation call for the same key waits for the lock
C24_Witness ==
    /\ InBackend(LoopThread, "A")
    /\ \E w \in Workers : /\ ai_thread[w].pc = "key_wait"
                           /\ ai_thread[w].key = "A"

\* C25: calls for different api keys do not delay one another: the
\* registry lock is held only inside _get_lock_for_api_key (never during
\* a backend call or while waiting for a per-key lock), different keys
\* have different locks, and a thread waits only for a lock held by a call
\* with its own key.
C25_IndependentCredentials ==
    /\ client_locks_lock # 0
          => ai_thread[client_locks_lock].pc \in {"reg_get", "reg_new", "reg_ret"}
    /\ \A k1 \in ApiKeys, k2 \in ApiKeys :
          (k1 # k2 /\ client_locks[k1] # 0)
          => client_locks[k1] # client_locks[k2]
    /\ \A t \in Threads :
          (ai_thread[t].pc = "key_wait" /\ ~KeyLockFree(ai_thread[t].lock))
          => ai_thread[lock_holder[ai_thread[t].lock]].key = ai_thread[t].key

\* C25 witness: backend calls for two different keys are in progress at
\* the same time
C25_Witness ==
    \E w1 \in Workers, w2 \in Workers :
        InBackend(w1, "A") /\ InBackend(w2, "B")

\* C26: the event-loop thread never waits for a lock that a generation
\* call in progress on an executor thread holds.
C26_LoopNeverBlocked ==
    ~(/\ ai_thread[LoopThread].pc = "key_wait"
      /\ \E w \in Workers :
            /\ ai_thread[w].pc = "backend"
            /\ lock_holder[ai_thread[LoopThread].lock] = w)

\* C33: an entry of the registry is never removed or replaced, and every
\* lock returned by _get_lock_for_api_key is the registry's lock of that
\* key: all calls with the same key get the same lock.
C33_OneLockPerCredential ==
    /\ [][\A k \in ApiKeys :
              client_locks[k] # 0 => client_locks'[k] = client_locks[k]]_vars
    /\ [](\A t \in Threads :
              ai_thread[t].pc \in {"reg_ret", "key_wait", "backend"}
              => /\ ai_thread[t].lock # 0
                 /\ ai_thread[t].lock = client_locks[ai_thread[t].key])
    /\ [](nlocks = Cardinality({k \in ApiKeys : client_locks[k] # 0}))

\* C33 witness: a thread is creating the lock of a never-seen key while
\* another thread requests the same key
C33_Witness ==
    \E t1 \in Threads, t2 \in Threads :
        /\ ai_thread[t1].pc = "reg_new"
        /\ ai_thread[t2].pc = "reg_wait"
        /\ ai_thread[t1].key = ai_thread[t2].key
        /\ client_locks[ai_thread[t1].key] = 0

\* C39: a per-key lock is held only by a thread inside its backend call
\* and is free again when that call has ended, by return or by exception;
\* a call without api key takes no lock and fails at once.
C39_LockAlwaysReleased ==
    /\ [](\A l \in Locks :
              lock_holder[l] # 0
              => /\ ai_thread[lock_holder[l]].pc = "backend"
                 /\ ai_thread[lock_holder[l]].lock = l)
    /\ [][\A t \in Threads :
              (ai_thread[t].pc = "backend" /\ ai_thread'[t].pc = "idle")
              => lock_holder'[ai_thread[t].lock] = 0]_vars
    /\ [][\A t \in Threads :
              (ai_thread'[t] # ai_thread[t] /\ ai_thread'[t].key = "")
              => /\ ai_thread'[t].pc = "idle"
                 /\ ai_thread'[t].res = "no_key"
                 /\ UNCHANGED <<client_locks, client_locks_lock, lock_holder,
                                nlocks>>]_vars

\* C39 witness: a generation call for a key failed and another call for
\* the same key is inside the backend
C39_Witness ==
    \E w1 \in Workers, w2 \in Workers :
        /\ ai_thread[w1].pc = "idle"
        /\ ai_thread[w1].res = "failed"
        /\ ai_thread[w1].key = "A"
        /\ InBackend(w2, "A")

\* what session x is made of: roster, elapsed counter, running flag,
\* lifecycle state and phase ledger
View(x) ==
    [roster |-> Roster(x),
     elapsed |-> session[x].timeelapsed,
     running |-> session[x].running,
     state |-> session[x].state,
     ledger |-> Ledger(x)]

C40_StopFlushesPending ==
    mc_flusher["stop"].pc = "returned"
    => \A row \in Rows : row <= mc_before => mc_db[row] = 1

====
